---- MODULE Spec2Model ----
(***************************************************************************)
(* GenomeCheck: the all-vs-all fastANI similarity matrix                   *)
(* (genome_analyzer.all_vs_all_fastani / run_fastani), the distance        *)
(* transform (compute_distance_matrix), the path of the Streamlit          *)
(* "Run all-vs-all fastANI analysis" button from the matrix to the         *)
(* neighbor-joining tree (streamlit_app.py, run_button branch), the        *)
(* assembly statistics (compute_stats), the tree step called on its own    *)
(* (neighbor_joining_tree, with the join loop of scikit-bio's nj), and the *)
(* script runs of concurrent browser sessions with their temp directories. *)
(*                                                                         *)
(* Specifications: Spec and FairSpec (matrix and app), StatsSpec           *)
(* (compute_stats), TreeSpec and HandoverSpec (tree step), SessionSpec     *)
(* (sessions).                                                             *)
(*                                                                         *)
(* Floats are modelled as exact rationals <<"num", p, q>> (q > 0, lowest   *)
(* terms) or the IEEE not-a-number <<"nan", 0, 1>>.                        *)
(***************************************************************************)
EXTENDS Integers, Sequences, FiniteSets, TLC

\* ---------------------------------------------------------------- bounds
\* Largest number of uploaded genome files.
MaxN == 3
\* Largest number of distinct fastANI behaviours seen during one run.
MaxBehaviours == 2

\* ------------------------------------------------------------- constants
\* run_fastani(..., timeout=600)
DEFAULT_TIMEOUT == 600
\* np.fill_diagonal(ani_matrix, 100.0)
DIAGONAL == 100
\* if len(genome_names) < 3
MIN_TREE_GENOMES == 3
\* if uploaded_files and len(file_paths) >= 2
MIN_COMPARE_GENOMES == 2

\* ---------------------------------------------------------------- floats
RECURSIVE GCD(_, _)
GCD(a, b) == IF b = 0 THEN a ELSE GCD(b, a % b)

Abs(a) == IF a < 0 THEN -a ELSE a

NaN == <<"nan", 0, 1>>

Num(p, q) ==
    LET g == GCD(Abs(p), q)
    IN <<"num", p \div g, q \div g>>

IsNaN(v) == v[1] = "nan"

\* x / 100.0
DivBy100(v) == IF IsNaN(v) THEN NaN ELSE Num(v[2], v[3] * 100)

\* 1 - x
OneMinus(v) == IF IsNaN(v) THEN NaN ELSE Num(v[3] - v[2], v[3])

\* -------------------------------------------------- the external fastANI
\* What one fastANI invocation does: "no_binary" (get_fastani_binary finds
\* none), "hang" (runs beyond any time limit), "exit_nonzero", "no_output"
\* (exit 0, no output file), "short_line" (first line has fewer than three
\* tab-separated columns), or "ok" with the text of the third column.
Behaviours ==
    {[proc |-> p, field |-> ""] :
        p \in {"no_binary", "hang", "exit_nonzero", "no_output", "short_line"}}
    \cup
    {[proc |-> "ok", field |-> f] : f \in {"98.5", "100", "150", "nan", "NA"}}

\* The timeouts a caller of the matrix build may need each invocation
\* bounded by.
CallerTimeouts == {60, 600}

\* subprocess.run(..., timeout=None): no time limit.
NoTimeout == 0

\* float(parts[2]): the parsed value, or <<"ValueError", 0, 1>>.
ParseFloat(text) ==
    CASE text = "98.5" -> Num(197, 2)
      [] text = "100"  -> Num(100, 1)
      [] text = "150"  -> Num(150, 1)
      [] text = "nan"  -> NaN
      [] OTHER         -> <<"ValueError", 0, 1>>

Returned(v) == [exc |-> "none", value |-> v, msg |-> ""]
Raised(e, m) == [exc |-> e, value |-> NaN, msg |-> m]
\* subprocess.run without a timeout on a process that never ends.
Blocked == [exc |-> "blocked", value |-> NaN, msg |-> ""]

\* Faulty variant: subprocess.run is called without timeout=.
SubprocessHang_Unbounded(timeout) == Blocked

\* subprocess.run(cmd, ..., timeout=timeout) on a process that runs beyond
\* any limit: TimeoutExpired when a timeout is set, no return otherwise.
SubprocessHang(timeout) ==
    IF timeout # NoTimeout
    THEN Raised("RuntimeError", "fastANI timed out")
    ELSE Blocked

run_fastani(beh, timeout) ==
    CASE beh.proc = "no_binary" ->
            Raised("RuntimeError", "fastANI binary not found")
      [] beh.proc = "hang" -> SubprocessHang(timeout)
      [] beh.proc = "exit_nonzero" ->
            Raised("RuntimeError", "fastANI failed")
      [] beh.proc = "no_output" ->
            Raised("RuntimeError", "fastANI did not create expected output file")
      [] beh.proc = "short_line" ->
            Raised("RuntimeError", "fastANI output file malformed")
      [] OTHER ->
            LET v == ParseFloat(beh.field)
            IN IF v[1] = "ValueError"
               THEN Raised("RuntimeError", "fastANI produced non-numeric ANI value")
               ELSE Returned(v)

\* ------------------------------------------------- all_vs_all_fastani
Idx(n) == 0 .. (n - 1)
Cells(n) == Idx(n) \X Idx(n)

\* np.zeros((n, n))
Zeros(n) == [c \in Cells(n) |-> Num(0, 1)]

\* Faulty variant: itertools.combinations_with_replacement(range(n), 2).
Combinations_WithSelf(n) ==
    LET S == {c \in Cells(n) : c[1] <= c[2]}
        Before(c) == Cardinality({d \in S : d[1] < c[1] \/ (d[1] = c[1] /\ d[2] < c[2])})
    IN [r \in 1 .. Cardinality(S) |-> CHOOSE c \in S : Before(c) = r - 1]

\* itertools.combinations(range(n), 2), in its (lexicographic) order.
Combinations(n) ==
    LET S == {c \in Cells(n) : c[1] < c[2]}
        Before(c) == Cardinality({d \in S : d[1] < c[1] \/ (d[1] = c[1] /\ d[2] < c[2])})
    IN [r \in 1 .. Cardinality(S) |-> CHOOSE c \in S : Before(c) = r - 1]

\* ani_matrix[i, j] = ani ; ani_matrix[j, i] = ani
StoreScore(m, i, j, ani) ==
    [m EXCEPT ![<<i, j>>] = ani, ![<<j, i>>] = ani]

\* Faulty variant: only ani_matrix[i, j] is marked unavailable.
StoreUnavailable_OneCell(m, i, j) ==
    [m EXCEPT ![<<i, j>>] = NaN]

\* ani_matrix[i, j] = np.nan ; ani_matrix[j, i] = np.nan
StoreUnavailable(m, i, j) ==
    [m EXCEPT ![<<i, j>>] = NaN, ![<<j, i>>] = NaN]

\* Faulty variant: the failure is recorded under both (i, j) and (j, i).
RecordError_BothKeys(errs, i, j, msg) ==
    [p \in DOMAIN errs \cup {<<i, j>>, <<j, i>>} |->
        IF p \in {<<i, j>>, <<j, i>>} THEN msg ELSE errs[p]]

\* errors[(i, j)] = err_msg
RecordError(errs, i, j, msg) ==
    [p \in DOMAIN errs \cup {<<i, j>>} |->
        IF p = <<i, j>> THEN msg ELSE errs[p]]

\* Faulty variant: except ValueError.
Caught_ValueErrorOnly(exc) == exc = "ValueError"

\* except Exception as e: RuntimeError is an Exception.
Caught(exc) == exc \in {"RuntimeError", "ValueError", "OSError"}

\* Faulty variant: the diagonal is left as np.zeros made it.
FillDiagonal_Skipped(m, n) == m

\* np.fill_diagonal(ani_matrix, 100.0)
FillDiagonal(m, n) ==
    [c \in Cells(n) |-> IF c[1] = c[2] THEN Num(DIAGONAL, 1) ELSE m[c]]

\* The timeout all_vs_all_fastani hands to run_fastani: it passes
\* threads only, so run_fastani's default applies.
InvocationTimeout(wanted) == DEFAULT_TIMEOUT

\* ------------------------------------------------------------ state
VARIABLES
    pc,             \* "idle", "running", "aborted", "returned", "lib_done", "app_done"
    n,              \* len(file_paths)
    fastani,        \* the behaviours fastANI shows during this run
    wanted_timeout, \* the bound the caller of the matrix build needs
    k,              \* pairs of Combinations(n) consumed so far
    ani_matrix,
    errors,
    calls,          \* run_fastani invocations per (query, ref) index pair
    results,        \* what run_fastani did for each attempted pair
    timeouts_used,  \* timeouts handed to subprocess.run so far
    app_matrix,     \* the app's ani_matrix after np.nan_to_num
    distance_matrix,
    tree            \* outcome of the tree-building step

\* State of the other entry points modelled below (compute_stats, the
\* neighbor-joining step called on its own, the Streamlit sessions).
VARIABLES
    records,        \* compute_stats: the FASTA records, in file order
    stats           \* compute_stats: the dictionary returned

VARIABLES
    tpc,            \* tree step: "off", "ani", "distance", "joining", "done"
    handed,         \* the matrix handed between the components and the labels
    outcome,        \* what neighbor_joining_tree gave its caller
    work            \* neighbor joining: active nodes, live matrix, edges

VARIABLES
    session_state,  \* st.session_state of every browser session
    environ,        \* os.environ['SESSION_TEMP_DIR'] of the server process
    disk,           \* the temp directories and the outputs saved in them
    last_run        \* what the latest script run did and showed

matrixVars == <<pc, n, fastani, wanted_timeout, k, ani_matrix, errors, calls,
                results, timeouts_used, app_matrix, distance_matrix, tree>>

statsVars == <<records, stats>>

treeVars == <<tpc, handed, outcome, work>>

sessionVars == <<session_state, environ, disk, last_run>>

auxVars == <<statsVars, treeVars, sessionVars>>

vars == <<matrixVars, auxVars>>

Empty == <<>>
NoTree == [status |-> "none", from |-> Empty]

\* compute_stats is not running.
StatsIdle == records = Empty /\ stats = Empty

\* neighbor_joining_tree is not called on its own.
TreeIdle == tpc = "off" /\ handed = Empty /\ outcome = Empty /\ work = Empty

\* No browser session is modelled.
SessionsIdle ==
    /\ session_state = Empty
    /\ environ = 0
    /\ disk = Empty
    /\ last_run = Empty

AuxIdle == StatsIdle /\ TreeIdle /\ SessionsIdle

Init ==
    /\ pc = "idle"
    /\ n \in 0 .. MaxN
    /\ fastani \in {B \in SUBSET Behaviours :
                        Cardinality(B) >= 1 /\ Cardinality(B) <= MaxBehaviours}
    /\ wanted_timeout \in CallerTimeouts
    /\ k = 0
    /\ ani_matrix = Empty
    /\ errors = Empty
    /\ calls = Empty
    /\ results = Empty
    /\ timeouts_used = {}
    /\ app_matrix = Empty
    /\ distance_matrix = Empty
    /\ tree = NoTree
    /\ AuxIdle

\* all_vs_all_fastani(file_paths): lines 323-326.
Call ==
    /\ pc = "idle"
    /\ pc' = "running"
    /\ ani_matrix' = Zeros(n)
    /\ errors' = Empty
    /\ calls' = [c \in Cells(n) |-> 0]
    /\ k' = 0
    /\ UNCHANGED <<n, fastani, wanted_timeout, results, timeouts_used,
                   app_matrix, distance_matrix, tree>>
    /\ UNCHANGED auxVars

\* One iteration of the loop over the pairs: lines 327-338.
Compare ==
    /\ pc = "running"
    /\ k < Len(Combinations(n))
    /\ \E beh \in fastani :
        LET p == Combinations(n)[k + 1]
            i == p[1]
            j == p[2]
            t == InvocationTimeout(wanted_timeout)
            r == run_fastani(beh, t)
        IN /\ r.exc # "blocked"
           /\ calls' = [calls EXCEPT ![p] = @ + 1]
           /\ results' = [q \in DOMAIN results \cup {p} |->
                            IF q = p THEN r ELSE results[q]]
           /\ timeouts_used' = IF beh.proc = "no_binary"
                               THEN timeouts_used
                               ELSE timeouts_used \cup {t}
           /\ IF r.exc = "none"
              THEN /\ ani_matrix' = StoreScore(ani_matrix, i, j, r.value)
                   /\ errors' = errors
                   /\ pc' = pc
              ELSE IF Caught(r.exc)
              THEN /\ ani_matrix' = StoreUnavailable(ani_matrix, i, j)
                   /\ errors' = RecordError(errors, i, j, r.msg)
                   /\ pc' = pc
              ELSE /\ ani_matrix' = ani_matrix
                   /\ errors' = errors
                   /\ pc' = "aborted"
    /\ k' = k + 1
    /\ UNCHANGED <<n, fastani, wanted_timeout, app_matrix, distance_matrix, tree>>
    /\ UNCHANGED auxVars

\* Lines 339-340: the diagonal is filled and the result returned.
Return ==
    /\ pc = "running"
    /\ k = Len(Combinations(n))
    /\ ani_matrix' = FillDiagonal(ani_matrix, n)
    /\ pc' = "returned"
    /\ UNCHANGED <<n, fastani, wanted_timeout, k, errors, calls, results,
                   timeouts_used, app_matrix, distance_matrix, tree>>
    /\ UNCHANGED auxVars

\* Faulty variant: unavailable similarities are coerced to 0 first, as the app does.
compute_distance_matrix_Coerced(m) ==
    [arg |-> m,
     ret |-> [c \in DOMAIN m |->
                IF IsNaN(m[c]) THEN Num(1, 1) ELSE OneMinus(DivBy100(m[c]))]]

\* compute_distance_matrix(ani_matrix): 1 - (ani_matrix / 100.0) builds new
\* arrays; arg is the caller's array after the call, ret the value returned.
compute_distance_matrix(m) ==
    [arg |-> m, ret |-> [c \in DOMAIN m |-> OneMinus(DivBy100(m[c]))]]

\* A library caller turns the returned matrix into distances.
ComputeDistance ==
    /\ pc = "returned"
    /\ LET r == compute_distance_matrix(ani_matrix)
       IN /\ ani_matrix' = r.arg
          /\ distance_matrix' = r.ret
    /\ pc' = "lib_done"
    /\ UNCHANGED <<n, fastani, wanted_timeout, k, errors, calls, results,
                   timeouts_used, app_matrix, tree>>
    /\ UNCHANGED auxVars

\* ------------------------------------------- streamlit_app.py, run_button
\* np.nan_to_num(ani_matrix, nan=0.0)
nan_to_num(m) == [c \in DOMAIN m |-> IF IsNaN(m[c]) THEN Num(0, 1) ELSE m[c]]

\* distance_matrix = 1 - (ani_matrix / 100.0)
AppDistance(m) == [c \in DOMAIN m |-> OneMinus(DivBy100(m[c]))]

\* Faulty variant: if len(genome_names) < 2.
TooFewGenomes_OffByOne(count) == count < MIN_COMPARE_GENOMES

\* if len(genome_names) < 3
TooFewGenomes(count) == count < MIN_TREE_GENOMES

HasNaN(m) == \E c \in DOMAIN m : IsNaN(m[c])

\* Faulty variant: only the shape is checked against the ids.
ValidDistanceMatrix_ShapeOnly(dm, count) ==
    /\ DOMAIN dm = Cells(count)
    /\ count >= 1

\* skbio.DistanceMatrix(distance_matrix, genome_names) accepts a matrix
\* that is symmetric, hollow and free of NaN, with one id per row.
ValidDistanceMatrix(dm, count) ==
    /\ DOMAIN dm = Cells(count)
    /\ count >= 1
    /\ ~HasNaN(dm)
    /\ \A c \in DOMAIN dm : dm[c] = dm[<<c[2], c[1]>>]
    /\ \A i \in Idx(count) : dm[<<i, i>>] = Num(0, 1)

\* neighbor_joining_tree(distance_matrix, genome_names): only ImportError is
\* handled; what DistanceMatrix(...) or nj(...) raise reaches the caller.
neighbor_joining_tree(dm, count, skbio_installed) ==
    IF ~skbio_installed
    THEN [status |-> "not_available", from |-> Empty]
    ELSE IF ~ValidDistanceMatrix(dm, count)
    THEN [status |-> "raised", from |-> Empty]
    ELSE IF count < 3
    THEN [status |-> "raised", from |-> Empty]
    ELSE [status |-> "tree", from |-> dm]

\* The script after all_vs_all_fastani returned: lines 351-502.
AppRender ==
    /\ pc = "returned"
    /\ n >= MIN_COMPARE_GENOMES
    /\ app_matrix' = nan_to_num(ani_matrix)
    /\ \E skbio_installed \in BOOLEAN :
        IF TooFewGenomes(n)
        THEN /\ tree' = [status |-> "not_enough_inputs", from |-> Empty]
             /\ distance_matrix' = distance_matrix
        ELSE /\ distance_matrix' = AppDistance(app_matrix')
             /\ tree' = neighbor_joining_tree(distance_matrix', n, skbio_installed)
    /\ pc' = "app_done"
    /\ UNCHANGED <<n, fastani, wanted_timeout, k, ani_matrix, errors, calls,
                   results, timeouts_used>>
    /\ UNCHANGED auxVars

\* Fewer than two uploaded files: the script has no comparison section
\* (line 253) and builds nothing.
AppSkip ==
    /\ pc = "idle"
    /\ n < MIN_COMPARE_GENOMES
    /\ pc' = "app_done"
    /\ UNCHANGED <<n, fastani, wanted_timeout, k, ani_matrix, errors, calls,
                   results, timeouts_used, app_matrix, distance_matrix, tree>>
    /\ UNCHANGED auxVars

Next == Call \/ Compare \/ Return \/ ComputeDistance \/ AppRender \/ AppSkip

Spec == Init /\ [][Next]_vars

\* The runs that decide whether the matrix build can block: fastANI hangs,
\* fails at once, or writes a score.
TimeoutBehaviours ==
    {b \in Behaviours :
        b.proc \in {"hang", "exit_nonzero"} \/ b.field = "98.5"}

FairInit == Init /\ fastani \subseteq TimeoutBehaviours

\* Once called, all_vs_all_fastani keeps executing: the next iteration of
\* its loop, or its return, is taken when it can be.
FairSpec == FairInit /\ [][Next]_vars /\ WF_vars(Compare) /\ WF_vars(Return)

\* ------------------------------------------------------------ properties
Pairs(count) == {c \in Cells(count) : c[1] < c[2]}
Swap(c) == <<c[2], c[1]>>
Hundred == <<"num", 100, 1>>

\* all_vs_all_fastani has returned its matrix (to a library caller or to
\* the app).
HasReturned ==
    \/ pc \in {"returned", "lib_done"}
    \/ (pc = "app_done" /\ tree.status # "none")

Failed(p) == p \in DOMAIN results /\ results[p].exc # "none"
Scored(p) == p \in DOMAIN results /\ results[p].exc = "none"
                /\ ~IsNaN(results[p].value)

\* C1: the matrix all_vs_all_fastani returns is symmetric: for all i # j
\* the cells [i][j] and [j][i] hold the same score or are both NaN,
\* whatever the number of files and the outcomes of the comparisons.
C1_Symmetric ==
    HasReturned =>
        /\ DOMAIN ani_matrix = Cells(n)
        /\ \A c \in Cells(n) :
              c[1] # c[2] =>
                \/ ani_matrix[c] = ani_matrix[Swap(c)]
                \/ (IsNaN(ani_matrix[c]) /\ IsNaN(ani_matrix[Swap(c)]))

\* Three files, one pair failed and another scored, matrix returned.
C1_Witness ==
    /\ pc = "returned"
    /\ n = 3
    /\ \E p \in Pairs(n) : Failed(p) /\ IsNaN(ani_matrix[p])
    /\ \E p \in Pairs(n) : Scored(p) /\ ani_matrix[p] = <<"num", 197, 2>>

\* C2: every diagonal cell of the returned matrix is exactly 100.0, also
\* when every comparison failed.
C2_Diagonal ==
    HasReturned =>
        \A i \in Idx(n) :
            <<i, i>> \in DOMAIN ani_matrix /\ ani_matrix[<<i, i>>] = Hundred

\* Three files, all three comparisons failed, matrix returned.
C2_Witness ==
    /\ pc = "returned"
    /\ n = 3
    /\ \A p \in Pairs(n) : Failed(p)
    /\ DOMAIN errors = Pairs(n)

\* C3: one run invokes run_fastani exactly once for each pair i < j,
\* n*(n-1)/2 times in all, and never for a pair with i >= j, whatever the
\* earlier invocations did.
C3_OncePerPair ==
    /\ pc = "running" =>
          \A c \in Cells(n) :
              /\ calls[c] <= 1
              /\ (c[1] >= c[2] => calls[c] = 0)
    /\ HasReturned =>
          /\ \A c \in Cells(n) : calls[c] = IF c[1] < c[2] THEN 1 ELSE 0
          /\ 2 * Cardinality({c \in Cells(n) : calls[c] > 0}) = n * (n - 1)

\* Three files, the first comparison failed, all three were made.
C3_Witness ==
    /\ pc = "returned"
    /\ n = 3
    /\ Failed(<<0, 1>>)
    /\ \A p \in Pairs(n) : calls[p] = 1

\* C4: a failed comparison marks both cells of its pair unavailable and
\* is recorded in the failure map with its reason; it never aborts the
\* run, which attempts every remaining pair and returns.
C4_FailureIsolation ==
    /\ pc # "aborted"
    /\ \A p \in DOMAIN results :
          Failed(p) =>
            /\ IsNaN(ani_matrix[p]) /\ IsNaN(ani_matrix[Swap(p)])
            /\ p \in DOMAIN errors
            /\ errors[p] = results[p].msg
            /\ errors[p] # ""
    /\ HasReturned => DOMAIN results = Pairs(n)

\* Three files: the first pair failed, a later pair was still compared
\* and scored, and the matrix was returned.
C4_Witness ==
    /\ pc = "returned"
    /\ n = 3
    /\ Failed(<<0, 1>>)
    /\ Scored(<<1, 2>>)
    /\ ~IsNaN(ani_matrix[<<1, 2>>])

\* C5: if exactly one comparison fails and all others return a defined
\* score, the failure map has exactly one entry, the failed pair, and
\* every other off-diagonal cell holds the score returned for its pair.
C5_PartialFailure ==
    HasReturned =>
        LET F == {p \in Pairs(n) : Failed(p)}
            S == {p \in Pairs(n) : Scored(p)}
        IN (Cardinality(F) = 1 /\ F \cup S = Pairs(n)) =>
              /\ DOMAIN errors = F
              /\ Cardinality(DOMAIN errors) = 1
              /\ \A p \in S :
                    /\ ani_matrix[p] = results[p].value
                    /\ ani_matrix[Swap(p)] = results[p].value
                    /\ ~IsNaN(ani_matrix[p])

\* Three files, one failure, two scores.
C5_Witness ==
    /\ pc = "returned"
    /\ n = 3
    /\ Cardinality({p \in Pairs(n) : Failed(p)}) = 1
    /\ Cardinality({p \in Pairs(n) : Scored(p)}) = 2
    /\ Cardinality(DOMAIN errors) = 1

\* 0 <= x <= 100
InScoreRange(v) == ~IsNaN(v) /\ v[2] >= 0 /\ v[2] <= 100 * v[3]

\* C6: every off-diagonal entry of the matrix is a score in [0, 100] or
\* NaN: an ANI field outside [0, 100] or not finite is never stored as a
\* score.
C6_ScoresInRange ==
    \A c \in DOMAIN ani_matrix :
        c[1] # c[2] => (IsNaN(ani_matrix[c]) \/ InScoreRange(ani_matrix[c]))

\* C7 as stated: each invocation is bounded by the timeout the caller of
\* the matrix build supplied.
C7_CallerSuppliedTimeout ==
    \A t \in timeouts_used : t = wanted_timeout

TimedOut(p) == p \in DOMAIN results /\ results[p].msg = "fastANI timed out"

\* C7 (amended): each invocation is bounded by run_fastani's default
\* timeout of 600 seconds, whatever the caller needs; an invocation that
\* times out is a failure of its pair only; and a started run eventually
\* returns with every pair attempted.
C7_BoundedAndReturns ==
    /\ [](\A t \in timeouts_used : t = 600)
    /\ [](/\ pc # "aborted"
          /\ \A p \in DOMAIN results :
                TimedOut(p) => (p \in DOMAIN errors /\ IsNaN(ani_matrix[p])))
    /\ ((pc = "running") ~> (pc = "returned" /\ DOMAIN results = Pairs(n)))

\* Three files: the first comparison timed out, a later one scored, the
\* run returned.
C7_Witness ==
    /\ pc = "returned"
    /\ n = 3
    /\ TimedOut(<<0, 1>>)
    /\ Scored(<<0, 2>>)
    /\ timeouts_used = {600}

\* C8: compute_distance_matrix is a pure cell-wise transform: D = 1 - S/100
\* where S is defined, D is NaN exactly where S is NaN, all-100
\* similarities give all-zero distances, and the input is not modified.
C8_DistanceTransform ==
    [][(pc = "returned" /\ pc' = "lib_done") =>
        /\ ani_matrix' = ani_matrix
        /\ DOMAIN distance_matrix' = DOMAIN ani_matrix
        /\ \A c \in DOMAIN ani_matrix :
              LET sim == ani_matrix[c]
                  d == distance_matrix'[c]
              IN /\ IsNaN(d) <=> IsNaN(sim)
                 /\ ~IsNaN(sim) =>
                       /\ d[1] = "num"
                       /\ d[3] > 0
                       /\ d[2] * 100 * sim[3] = d[3] * (100 * sim[3] - sim[2])
        /\ (\A c \in DOMAIN ani_matrix : ani_matrix[c] = Hundred) =>
              (\A c \in DOMAIN ani_matrix : distance_matrix'[c] = <<"num", 0, 1>>)
    ]_vars

\* Three files: an unavailable cell stayed unavailable and a 98.5 became
\* the distance 3/200.
C8_Witness ==
    /\ pc = "lib_done"
    /\ n = 3
    /\ \E c \in Cells(n) : IsNaN(ani_matrix[c]) /\ IsNaN(distance_matrix[c])
    /\ \E c \in Cells(n) : ani_matrix[c] = <<"num", 197, 2>>
                              /\ distance_matrix[c] = <<"num", 3, 200>>

\* C9: on the app's path from the matrix to the tree, an unavailable cell
\* stops the tree build (an incomplete-distance-matrix report, or no
\* neighbor joining at all): no tree is emitted from a distance that was
\* substituted for an unavailable cell.
C9_NoTreeFromUnavailable ==
    (/\ pc = "app_done"
     /\ tree.status # "none"
     /\ \E p \in Pairs(n) : Failed(p) /\ IsNaN(ani_matrix[p])) =>
        /\ tree.status \in {"incomplete_distance_matrix", "not_enough_inputs",
                            "not_available"}
        /\ tree.from = Empty

MaxContigs == 3
\* Largest sequence length of a record.
MaxLen == 5

\* all_vs_all_fastani and the app are not running.
MatrixIdle ==
    /\ pc = "off"
    /\ n = 0
    /\ fastani = {}
    /\ wanted_timeout = NoTimeout
    /\ k = 0
    /\ ani_matrix = Empty
    /\ errors = Empty
    /\ calls = Empty
    /\ results = Empty
    /\ timeouts_used = {}
    /\ app_matrix = Empty
    /\ distance_matrix = Empty
    /\ tree = NoTree

\* seq.count("G") + seq.count("C") of a record of the given length: a
\* sequence without G/C, one that is half G/C, one that is all G/C.
GCCounts(len) == {0, len \div 2, len}

\* What SeqIO.parse yields for one record: len(seq) and its G/C count.
\* A header without sequence lines gives a record of length 0.
RecordChoices ==
    {[len |-> l, gc |-> g] : l \in 0 .. MaxLen, g \in 0 .. MaxLen} \cap
    UNION {{[len |-> l, gc |-> g] : g \in GCCounts(l)} : l \in 0 .. MaxLen}

\* Faulty variant: lengths.sort(), ascending.
RECURSIVE Insert_Ascending(_, _)
Insert_Ascending(sorted, x) ==
    IF sorted = <<>> THEN <<x>>
    ELSE IF x <= Head(sorted) THEN <<x>> \o sorted
    ELSE <<Head(sorted)>> \o Insert_Ascending(Tail(sorted), x)

RECURSIVE Insert(_, _)
Insert(sorted, x) ==
    IF sorted = <<>> THEN <<x>>
    ELSE IF x >= Head(sorted) THEN <<x>> \o sorted
    ELSE <<Head(sorted)>> \o Insert(Tail(sorted), x)

\* lengths.sort(reverse=True)
RECURSIVE SortDesc(_)
SortDesc(lengths) ==
    IF lengths = <<>> THEN <<>>
    ELSE Insert(SortDesc(Tail(lengths)), Head(lengths))

RECURSIVE SumLengths(_)
SumLengths(recs) ==
    IF recs = <<>> THEN 0 ELSE Head(recs).len + SumLengths(Tail(recs))

RECURSIVE SumGC(_)
SumGC(recs) ==
    IF recs = <<>> THEN 0 ELSE Head(recs).gc + SumGC(Tail(recs))

\* cumulative >= half_length, with half_length = total_bases / 2
ReachesHalf(cumulative, total_bases) == 2 * cumulative >= total_bases

\* The N50 loop from position i on; n50 keeps its initial 0 when the loop
\* ends without a break.
RECURSIVE N50Loop(_, _, _, _)
N50Loop(lengths, i, cumulative, total_bases) ==
    IF i > Len(lengths) THEN 0
    ELSE IF ReachesHalf(cumulative + lengths[i], total_bases)
         THEN lengths[i]
         ELSE N50Loop(lengths, i + 1, cumulative + lengths[i], total_bases)

\* Faulty variant: cumulative > l90_target.
Reaches90_Strict(cumulative, total_bases) == 10 * cumulative > 9 * total_bases

\* cumulative >= l90_target, with l90_target = total_bases * 0.9; for an
\* integer cumulative the float comparison agrees with the exact one.
Reaches90(cumulative, total_bases) == 10 * cumulative >= 9 * total_bases

\* The L90 loop from position i on: l90 is incremented before the test.
RECURSIVE L90Loop(_, _, _, _, _)
L90Loop(lengths, i, cumulative, l90, total_bases) ==
    IF i > Len(lengths) THEN l90
    ELSE IF Reaches90(cumulative + lengths[i], total_bases)
         THEN l90 + 1
         ELSE L90Loop(lengths, i + 1, cumulative + lengths[i], l90 + 1,
                      total_bases)

\* round(x, 2) of x = 100 * gc_count / total_bases, in hundredths; no
\* total_bases within the bounds puts x halfway between two hundredths.
Round2(gc_count, total_bases) ==
    Num((20000 * gc_count + total_bases) \div (2 * total_bases), 100)

ZeroDivisionError == <<"ZeroDivisionError", 0, 1>>

\* Faulty variant: (gc_count / total_bases) * 100 without the guard.
gc_percent_Unguarded(gc_count, total_bases) ==
    IF total_bases = 0 THEN ZeroDivisionError
    ELSE Round2(gc_count, total_bases)

\* (gc_count / total_bases) * 100 if total_bases > 0 else 0, rounded
gc_percent(gc_count, total_bases) ==
    IF total_bases > 0 THEN Round2(gc_count, total_bases) ELSE Num(0, 1)

StatsOf(total, contigs, n50, l90, gc) ==
    [exc |-> "none", total_length |-> total, num_contigs |-> contigs,
     N50 |-> n50, L90 |-> l90, GC |-> gc]

\* if not lengths
NoRecords(lengths) == lengths = <<>>

compute_stats(recs) ==
    LET unsorted == [i \in 1 .. Len(recs) |-> recs[i].len]
        gc_count == SumGC(recs)
        total_bases == SumLengths(recs)
        num_contigs == Len(recs)
    IN IF NoRecords(unsorted)
       THEN StatsOf(0, 0, 0, 0, Num(0, 1))
       ELSE LET lengths == SortDesc(unsorted)
                gc == gc_percent(gc_count, total_bases)
            IN IF gc = ZeroDivisionError
               THEN [exc |-> "ZeroDivisionError", total_length |-> 0,
                     num_contigs |-> 0, N50 |-> 0, L90 |-> 0, GC |-> NaN]
               ELSE StatsOf(total_bases, num_contigs,
                            N50Loop(lengths, 1, 0, total_bases),
                            L90Loop(lengths, 1, 0, 0, total_bases),
                            gc)

StatsInit ==
    /\ MatrixIdle
    /\ TreeIdle
    /\ SessionsIdle
    /\ records \in UNION {[1 .. m -> RecordChoices] : m \in 0 .. MaxContigs}
    /\ stats = Empty

\* compute_stats(fasta_file): lines 12-66.
ComputeStats ==
    /\ stats = Empty
    /\ stats' = compute_stats(records)
    /\ UNCHANGED <<records, matrixVars, treeVars, sessionVars>>

StatsNext == ComputeStats

StatsSpec == StatsInit /\ [][StatsNext]_vars

\* --------------------------------------------- properties of compute_stats
StatsDone == stats # Empty

PositiveLengths ==
    /\ records # <<>>
    /\ \A i \in DOMAIN records : records[i].len > 0

\* The r-th largest length of the records (r = 1 is the largest).
NthLargest(recs, r) ==
    CHOOSE v \in {recs[i].len : i \in DOMAIN recs} :
        /\ Cardinality({i \in DOMAIN recs : recs[i].len > v}) < r
        /\ Cardinality({i \in DOMAIN recs : recs[i].len >= v}) >= r

\* Sum of the r largest lengths.
RECURSIVE SumLargest(_, _)
SumLargest(recs, r) ==
    IF r = 0 THEN 0 ELSE NthLargest(recs, r) + SumLargest(recs, r - 1)

\* Total length of the records at least L long.
RECURSIVE CoverOf(_, _)
CoverOf(recs, L) ==
    IF recs = <<>> THEN 0
    ELSE (IF Head(recs).len >= L THEN Head(recs).len ELSE 0)
         + CoverOf(Tail(recs), L)

Max(S) == CHOOSE x \in S : \A y \in S : y <= x
Min(S) == CHOOSE x \in S : \A y \in S : x <= y

FiveHundreds == [i \in 1 .. 5 |-> [len |-> 100, gc |-> 40]]

\* C11: for a non-empty list of positive contig lengths, N50 is the length
\* of the first contig, largest first, at which the running sum reaches
\* half of the total; equivalently the largest L such that the contigs of
\* length >= L cover at least half of the total. Five contigs of length
\* 100 give N50 = 100.
C11_N50 ==
    /\ (StatsDone /\ PositiveLengths) =>
        LET total == SumLengths(records)
            first == Min({r \in 1 .. Len(records) :
                            2 * SumLargest(records, r) >= total})
            covering == {L \in {records[i].len : i \in DOMAIN records} :
                            2 * CoverOf(records, L) >= total}
        IN /\ stats.exc = "none"
           /\ stats.N50 = NthLargest(records, first)
           /\ stats.N50 = Max(covering)
    /\ compute_stats(FiveHundreds).N50 = 100

\* Contigs given shortest first, and the half is reached only at a contig
\* shorter than the longest one.
C11_Witness ==
    /\ StatsDone
    /\ PositiveLengths
    /\ Len(records) = 3
    /\ records[1].len < records[3].len
    /\ stats.N50 < NthLargest(records, 1)
    /\ stats.N50 > NthLargest(records, 3)

\* C12: for a non-empty list of positive contig lengths, L90 is the least
\* number k of largest-first contigs whose lengths sum to at least 90% of
\* the total, so 1 <= L90 <= number of contigs. Five contigs of length 100
\* give L90 = 5.
C12_L90 ==
    /\ (StatsDone /\ PositiveLengths) =>
        LET total == SumLengths(records)
        IN /\ stats.exc = "none"
           /\ stats.L90 = Min({r \in 1 .. Len(records) :
                                 10 * SumLargest(records, r) >= 9 * total})
           /\ 1 <= stats.L90
           /\ stats.L90 <= Len(records)
    /\ compute_stats(FiveHundreds).L90 = 5

\* The 90% are reached exactly (5 + 4 of 10) before the last contig, with
\* the shortest contig first in the file.
C12_Witness ==
    /\ StatsDone
    /\ PositiveLengths
    /\ Len(records) = 3
    /\ records[1].len < records[2].len
    /\ SumLengths(records) = 10
    /\ stats.L90 = 2

\* C13: a file with zero records gives total length, contig count, N50,
\* L90 and GC% all 0 and no error; and whenever the total base count is 0,
\* GC% is 0 and no error is raised.
C13_ZeroRecords ==
    StatsDone =>
        /\ records = <<>> =>
            /\ stats.exc = "none"
            /\ stats.total_length = 0
            /\ stats.num_contigs = 0
            /\ stats.N50 = 0
            /\ stats.L90 = 0
            /\ stats.GC = Num(0, 1)
        /\ SumLengths(records) = 0 =>
            /\ stats.exc = "none"
            /\ stats.GC = Num(0, 1)

\* Records are present but all of them are empty sequences.
C13_Witness ==
    /\ StatsDone
    /\ Len(records) = 2
    /\ SumLengths(records) = 0
    /\ stats.num_contigs = 2
    /\ stats.GC = Num(0, 1)

\* The file has no records at all.
C13_WitnessEmpty ==
    /\ StatsDone
    /\ records = <<>>
    /\ stats.num_contigs = 0

\* =============================================== neighbor_joining_tree
\* Largest number of genomes handed to the tree step.
MaxLeaves == 4

\* The similarities found between two different genomes.
AniScores == {97, 98, 99}

\* --------------------------------------------- rational arithmetic (floats)
RAdd(a, b) == Num(a[2] * b[3] + b[2] * a[3], a[3] * b[3])
RSub(a, b) == Num(a[2] * b[3] - b[2] * a[3], a[3] * b[3])
\* a * m / d, for integers m and d > 0
RScale(a, m, d) == Num(a[2] * m, a[3] * d)
RLess(a, b) == a[2] * b[3] < b[2] * a[3]

\* A matrix of the given shape, as numpy holds it.
Grid(rows, cols) == Idx(rows) \X Idx(cols)

\* A symmetric similarity matrix with 100 on the diagonal, as
\* all_vs_all_fastani returns it when every comparison gave a score.
AniMatrices(count) ==
    LET upper == {c \in Cells(count) : c[1] < c[2]}
    IN {[c \in Cells(count) |->
            IF c[1] = c[2] THEN Num(DIAGONAL, 1)
            ELSE IF c[1] < c[2] THEN Num(f[c], 1)
            ELSE Num(f[<<c[2], c[1]>>], 1)] : f \in [upper -> AniScores]}

\* ------------------------------------------------- skbio.tree.nj(dm)
\* Leaves are the label indices 0 .. count-1; internal nodes are numbered
\* from count on, in the order they are created.
NJStart(dm, count) ==
    [labels |-> count, active |-> Idx(count), live |-> dm, edges |-> {},
     made |-> 0]

RECURSIVE RowSum(_, _, _)
\* r(i) = sum over active j # i of D[i][j]
RowSum(live, i, others) ==
    IF others = {} THEN Num(0, 1)
    ELSE LET j == CHOOSE x \in others : TRUE
         IN RAdd(live[<<i, j>>], RowSum(live, i, others \ {j}))

\* r as a function of the active node.
R(st) == [i \in st.active |-> RowSum(st.live, i, st.active \ {i})]

\* Q(i,j) = (n_active - 2) * D[i][j] - r(i) - r(j)
Q(st, r, i, j) ==
    RSub(RSub(RScale(st.live[<<i, j>>], Cardinality(st.active) - 2, 1), r[i]),
         r[j])

ActivePairs(st) == {p \in st.active \X st.active : p[1] < p[2]}

\* The active pairs whose Q is minimal.
MinimalPairs(st) ==
    LET r == R(st)
        scored == {<<p, Q(st, r, p[1], p[2])>> : p \in ActivePairs(st)}
    IN {s[1] : s \in {t \in scored : \A o \in scored : ~RLess(o[2], t[2])}}

\* The first minimal pair in ascending i, then ascending j.
SelectPair(st) ==
    LET minimal == MinimalPairs(st)
    IN CHOOSE p \in minimal :
        \A q \in minimal : p[1] < q[1] \/ (p[1] = q[1] /\ p[2] <= q[2])

\* Faulty variant: len(u,i) = D[i,j] / 2, without the correction term.
BranchLength_Half(st, i, j) == RScale(st.live[<<i, j>>], 1, 2)

\* len(u,i) = D[i,j]/2 + (r(i) - r(j)) / (2 * (n_active - 2))
BranchLength(st, i, j) ==
    LET r == R(st)
    IN RAdd(RScale(st.live[<<i, j>>], 1, 2),
            RScale(RSub(r[i], r[j]), 1, 2 * (Cardinality(st.active) - 2)))

\* Faulty variant: the loop runs while more than 3 active nodes remain.
MoreToJoin_StopsAtThree(st) == Cardinality(st.active) > 3

\* while more than 2 active nodes remain
MoreToJoin(st) == Cardinality(st.active) > 2

Edge(a, b, len) == [a |-> a, b |-> b, len |-> len]

\* Nodes i and j are joined under a new internal node u.
JoinPair(st, i, j) ==
    LET u == st.labels + st.made
        li == BranchLength(st, i, j)
        lj == RSub(st.live[<<i, j>>], li)
        now == (st.active \ {i, j}) \cup {u}
        ToU(x) == RScale(RSub(RAdd(st.live[<<i, x>>], st.live[<<j, x>>]),
                              st.live[<<i, j>>]), 1, 2)
    IN [labels |-> st.labels,
        active |-> now,
        live |-> [c \in now \X now |->
                    IF c[1] = u /\ c[2] = u THEN Num(0, 1)
                    ELSE IF c[1] = u THEN ToU(c[2])
                    ELSE IF c[2] = u THEN ToU(c[1])
                    ELSE st.live[c]],
        edges |-> st.edges \cup {Edge(u, i, li), Edge(u, j, lj)},
        made |-> st.made + 1]

\* One iteration: join the selected pair.
JoinStep(st) ==
    LET p == SelectPair(st) IN JoinPair(st, p[1], p[2])

\* The last two active nodes are joined by one edge of their distance.
FinalJoin(st) ==
    LET a == CHOOSE x \in st.active : \A y \in st.active : x <= y
        b == CHOOSE x \in st.active : \A y \in st.active : y <= x
    IN [st EXCEPT !.active = {},
                  !.edges = @ \cup {Edge(b, a, st.live[<<a, b>>])}]

RECURSIVE nj(_)
\* nj(dm) from the working state to the finished tree.
nj(st) == IF MoreToJoin(st) THEN nj(JoinStep(st)) ELSE FinalJoin(st)

\* -------------------------------------------------- the tree step, stepwise
\* Largest number of rows of a matrix handed over with a defect.
MaxRows == 3

\* What can be wrong with a matrix handed from one component to the next.
Defects == {"none", "asymmetric", "not_square", "fewer_labels", "more_labels"}

OtherScore(v) == IF v = Num(97, 1) THEN Num(98, 1) ELSE Num(97, 1)

\* The matrix and the labels a caller hands over.
Handover(m, count, defect) ==
    CASE defect = "asymmetric" ->
            [matrix |-> [m EXCEPT ![<<0, 1>>] = OtherScore(@)], labels |-> count]
      [] defect = "not_square" ->
            [matrix |-> [c \in Grid(count, count - 1) |-> m[c]], labels |-> count]
      [] defect = "fewer_labels" -> [matrix |-> m, labels |-> count - 1]
      [] defect = "more_labels" -> [matrix |-> m, labels |-> count + 1]
      [] OTHER -> [matrix |-> m, labels |-> count]

\* A caller holds a complete similarity matrix of 3 .. MaxLeaves genomes.
TreeInit ==
    /\ MatrixIdle
    /\ StatsIdle
    /\ SessionsIdle
    /\ tpc = "ani"
    /\ \E count \in 3 .. MaxLeaves : \E m \in AniMatrices(count) :
        handed = Handover(m, count, "none")
    /\ outcome = Empty
    /\ work = Empty

\* A caller holds a matrix that may have a defect.
HandoverInit ==
    /\ MatrixIdle
    /\ StatsIdle
    /\ SessionsIdle
    /\ tpc = "ani"
    /\ \E count \in 2 .. MaxRows : \E m \in AniMatrices(count) :
        \E defect \in Defects : handed = Handover(m, count, defect)
    /\ outcome = Empty
    /\ work = Empty

\* compute_distance_matrix(ani_matrix): lines 343-347.
Transform ==
    /\ tpc = "ani"
    /\ handed' = [handed EXCEPT !.matrix = compute_distance_matrix(@).ret]
    /\ tpc' = "distance"
    /\ UNCHANGED <<outcome, work, matrixVars, statsVars, sessionVars>>

\* neighbor_joining_tree(distance_matrix, genome_names) up to the call of
\* nj: lines 350-356.
TreeCall ==
    /\ tpc = "distance"
    /\ \E skbio_installed \in BOOLEAN :
        LET r == neighbor_joining_tree(handed.matrix, handed.labels,
                                       skbio_installed)
        IN IF r.status = "tree"
           THEN /\ work' = NJStart(handed.matrix, handed.labels)
                /\ outcome' = outcome
                /\ tpc' = "joining"
           ELSE /\ work' = work
                /\ outcome' = r
                /\ tpc' = "done"
    /\ UNCHANGED <<handed, matrixVars, statsVars, sessionVars>>

\* One iteration of the join loop inside nj.
Join ==
    /\ tpc = "joining"
    /\ MoreToJoin(work)
    /\ work' = JoinStep(work)
    /\ UNCHANGED <<tpc, handed, outcome, matrixVars, statsVars, sessionVars>>

\* The loop has ended: the tree is completed and returned (line 357).
Finish ==
    /\ tpc = "joining"
    /\ ~MoreToJoin(work)
    /\ work' = FinalJoin(work)
    /\ outcome' = [status |-> "tree", from |-> handed.matrix]
    /\ tpc' = "done"
    /\ UNCHANGED <<handed, matrixVars, statsVars, sessionVars>>

TreeNext == Transform \/ TreeCall \/ Join \/ Finish

TreeSpec == TreeInit /\ [][TreeNext]_vars

HandoverSpec == HandoverInit /\ [][TreeNext]_vars

\* -------------------------------------------------- properties of the tree
TreeBuilt == tpc = "done" /\ outcome.status = "tree"

Nodes(edges) == {e.a : e \in edges} \cup {e.b : e \in edges}

Neighbours(edges, x) ==
    {e.b : e \in {f \in edges : f.a = x}} \cup
    {e.a : e \in {f \in edges : f.b = x}}

Degree(edges, x) == Cardinality(Neighbours(edges, x))

EdgeLength(edges, x, y) ==
    LET e == CHOOSE f \in edges : {f.a, f.b} = {x, y} IN e.len

RECURSIVE Reach(_, _, _)
\* The nodes reachable from x without passing through a node of `seen`.
Reach(edges, x, seen) ==
    {x} \cup UNION {Reach(edges, y, seen \cup {x}) :
                        y \in Neighbours(edges, x) \ seen}

RECURSIVE PathLength(_, _, _, _)
\* Sum of the branch lengths on the path from x to y in a tree.
PathLength(edges, x, y, seen) ==
    IF x = y THEN Num(0, 1)
    ELSE LET z == CHOOSE w \in Neighbours(edges, x) \ seen :
                      y \in Reach(edges, w, seen \cup {x})
         IN RAdd(EdgeLength(edges, x, z),
                 PathLength(edges, z, y, seen \cup {x}))

\* C14: for N >= 3 and a fully defined distance matrix, the tree has the
\* N input labels as its leaves, N-2 internal nodes and 2N-3 edges; the
\* loop joins once per iteration while more than 2 nodes are active, and
\* the last 2 are joined by a single edge.
C14_TreeShape ==
    /\ TreeBuilt =>
        LET N == handed.labels
            leaves == {x \in Nodes(work.edges) : Degree(work.edges, x) = 1}
        IN /\ N >= 3
           /\ leaves = Idx(N)
           /\ Cardinality(Nodes(work.edges) \ leaves) = N - 2
           /\ Cardinality(work.edges) = 2 * N - 3
           /\ work.made = N - 2
           /\ Reach(work.edges, 0, {}) = Nodes(work.edges)
    /\ (tpc = "joining" /\ outcome = Empty) =>
        /\ Cardinality(work.active) = work.labels - work.made
        /\ Cardinality(work.edges) = 2 * work.made

\* A tree over four genomes has been returned.
C14_Witness ==
    /\ TreeBuilt
    /\ handed.labels = 4
    /\ work.made = 2
    /\ Cardinality(work.edges) = 5

\* D(A,B) = 2, D(A,C) = 3, D(B,C) = 3
ExampleDistances ==
    [c \in Cells(3) |->
        IF c[1] = c[2] THEN Num(0, 1)
        ELSE IF c \in {<<0, 1>>, <<1, 0>>} THEN Num(2, 1)
        ELSE Num(3, 1)]

TriangleInequality(dm, count) ==
    \A a \in Idx(count), b \in Idx(count), c \in Idx(count) :
        ~RLess(RAdd(dm[<<a, b>>], dm[<<b, c>>]), dm[<<a, c>>])

PathsMatch(edges, dm, count) ==
    \A a \in Idx(count), b \in Idx(count) :
        a < b => PathLength(edges, a, b, {}) = dm[<<a, b>>]

\* C16: for 3 labels whose distances satisfy the triangle inequality, the
\* branch lengths on the path between every two leaves sum to the input
\* distance of that pair exactly; so for D(A,B)=2, D(A,C)=3, D(B,C)=3.
C16_MinimalCase ==
    /\ (/\ TreeBuilt
        /\ handed.labels = 3
        /\ TriangleInequality(handed.matrix, 3)) =>
            PathsMatch(work.edges, handed.matrix, 3)
    /\ (TreeBuilt /\ handed.labels = 3) =>
        PathsMatch(nj(NJStart(ExampleDistances, 3)).edges, ExampleDistances, 3)

\* Three genomes whose three distances all differ and satisfy the triangle
\* inequality with equality (0.01 + 0.02 = 0.03).
C16_Witness ==
    /\ TreeBuilt
    /\ handed.labels = 3
    /\ TriangleInequality(handed.matrix, 3)
    /\ handed.matrix[<<0, 1>>] # handed.matrix[<<0, 2>>]
    /\ handed.matrix[<<0, 2>>] # handed.matrix[<<1, 2>>]
    /\ handed.matrix[<<0, 1>>] # handed.matrix[<<1, 2>>]

\* ---------------------------------------------- properties of the handover
\* The matrix is not square, or its size differs from the number of
\* labels, or it is asymmetric.
Defective(h) ==
    \/ DOMAIN h.matrix # Cells(h.labels)
    \/ \E c \in DOMAIN h.matrix : h.matrix[c] # h.matrix[<<c[2], c[1]>>]

\* C17 as stated: a distance matrix that is asymmetric, not square, or of
\* a size other than the number of labels is detected and reported to the
\* caller as a defect by the distance-transform / tree-building step.
C17_DefectsReported ==
    (tpc = "done" /\ Defective(handed)) => outcome.status = "raised"

\* C17, amended: such a matrix is never used to build a tree; the tree
\* step either raises to its caller or, without scikit-bio, reports the
\* missing library.
C17_DefectsNeverUsed ==
    (tpc = "done" /\ Defective(handed)) =>
        /\ outcome.status \in {"raised", "not_available"}
        /\ outcome.from = Empty
        /\ work = Empty

\* An asymmetric 3 x 3 matrix went through the transform and was refused
\* by the tree step.
C17_Witness ==
    /\ tpc = "done"
    /\ handed.labels = 3
    /\ DOMAIN handed.matrix = Cells(3)
    /\ handed.matrix[<<0, 1>>] # handed.matrix[<<1, 0>>]
    /\ outcome.status = "raised"

\* C18: in the result of all_vs_all_fastani an off-diagonal pair (i,j),
\* i < j, has unavailable (NaN) cells if and only if the failure map holds
\* the key (i,j): no cell is unavailable without a recorded reason, also
\* when the comparator's output parses to a non-finite value, and no
\* recorded failure leaves a defined score.
C18_FailureMapAgrees ==
    HasReturned =>
        \A p \in Pairs(n) :
            (IsNaN(ani_matrix[p]) \/ IsNaN(ani_matrix[Swap(p)]))
                <=> p \in DOMAIN errors

\* ===================================================== streamlit_app.py
\* Browser sessions served by the one server process.
MaxSessions == 2

Sessions == 1 .. MaxSessions

\* Directory s is ./temp_sessions/<session_id of s>; directory 0 is the
\* fallback './temp/' used when SESSION_TEMP_DIR is not set.
Dirs == 0 .. MaxSessions

\* What the file uploader holds when the script runs.
Uploads == {{}, {"a"}, {"a", "b"}, {"a", "c"}}

\* The button whose press started the script run, if any.
Buttons == {"none", "run", "cleanup"}

NoOutputs == {}
NoDir == -1

\* A browser session before its first script run.
NewSession ==
    [session_id |-> FALSE, session_temp |-> NoDir, fastani_done |-> FALSE,
     heatmap_bytes |-> NoOutputs, temp_files_created |-> FALSE,
     files_processed |-> FALSE]

EmptyDir == [exists |-> FALSE, outputs |-> NoOutputs]

\* A script run of session s that has not done anything yet.
RunOf(s, files, button) ==
    [session |-> s, files |-> files, button |-> button, removed |-> NoDir,
     fastani_dir |-> NoDir, shown_cached |-> NoOutputs]

\* os.environ['SESSION_TEMP_DIR'] = session_temp (line 34)
ExportSessionDir(env, session_temp) == session_temp

\* Lines 20-36: first script run of a session.
InitSession(w, s) ==
    [w EXCEPT !.st = [@ EXCEPT !.session_id = TRUE, !.session_temp = s,
                               !.fastani_done = FALSE,
                               !.heatmap_bytes = NoOutputs,
                               !.temp_files_created = FALSE,
                               !.files_processed = FALSE],
              !.env = ExportSessionDir(@, s),
              !.disk = [@ EXCEPT ![s].exists = TRUE]]

\* Lines 68-71: the keys with the cache prefixes are deleted.
ClearCache(w) ==
    [w EXCEPT !.st = [@ EXCEPT !.fastani_done = FALSE,
                               !.heatmap_bytes = NoOutputs,
                               !.temp_files_created = FALSE,
                               !.files_processed = FALSE]]

\* Lines 119-125 and 161-168: the uploads are saved into session_temp and
\* analysed.
SaveUploads(w) ==
    [w EXCEPT !.disk = [@ EXCEPT ![w.st.session_temp].exists = TRUE],
              !.st = [@ EXCEPT !.temp_files_created = TRUE,
                               !.files_processed = TRUE]]

\* Lines 259-279: the outputs found in session_temp/outputs.
OutputsOnDisk(d) == IF d.exists THEN d.outputs ELSE NoOutputs

\* Lines 258-290.
RestoreFromDisk(w) ==
    LET found == OutputsOnDisk(w.disk[w.st.session_temp])
    IN IF ~w.st.fastani_done /\ found # NoOutputs
       THEN [w EXCEPT !.st = [@ EXCEPT !.heatmap_bytes = found,
                                       !.fastani_done = TRUE]]
       ELSE w

\* Lines 293-339: cached outputs are rendered.
RenderCached(w) ==
    IF w.st.fastani_done
    THEN [w EXCEPT !.run = [@ EXCEPT !.shown_cached = w.st.heatmap_bytes]]
    ELSE w

\* Lines 341-502: the run_button branch. all_vs_all_fastani writes its
\* per-pair files under SESSION_TEMP_DIR; the outputs go to
\* session_temp/outputs.
RunAnalysis(w) ==
    [w EXCEPT !.run = [@ EXCEPT !.fastani_dir = w.env],
              !.disk = [@ EXCEPT ![w.st.session_temp] =
                            [exists |-> TRUE, outputs |-> w.run.files]],
              !.st = [@ EXCEPT !.heatmap_bytes = w.run.files,
                               !.fastani_done = TRUE]]

\* cleanup_temp_directory(): shutil.rmtree of SESSION_TEMP_DIR or './temp/'.
cleanup_temp_directory(w) ==
    [w EXCEPT !.disk = [@ EXCEPT ![w.env] = EmptyDir],
              !.run = [@ EXCEPT !.removed =
                            IF w.disk[w.env].exists THEN w.env ELSE @]]

\* Lines 505-514, the cleanup on page refresh. 'files_processed' is in
\* session_state here (line 168 has set it), so lines 506-507 do not run.
RefreshCleanup(w, files) ==
    IF w.st.temp_files_created /\ files = {}
    THEN LET c == cleanup_temp_directory(w)
         IN [c EXCEPT !.st = [@ EXCEPT !.temp_files_created = FALSE,
                                       !.files_processed = FALSE]]
    ELSE w

\* One pass of the script from line 19 to its end or to st.rerun(). All
\* of lines 65-523, the cleanup on refresh included, are the body of
\* `if uploaded_files:` (line 64).
ScriptBody(w0, s, files, button) ==
    LET w1 == IF ~w0.st.session_id THEN InitSession(w0, s) ELSE w0
        w2 == SaveUploads(ClearCache(w1))
        w3 == IF Cardinality(files) >= MIN_COMPARE_GENOMES
              THEN IF button = "run"
                   THEN RunAnalysis(RestoreFromDisk(w2))
                   ELSE RenderCached(RestoreFromDisk(w2))
              ELSE w2
        w4 == RefreshCleanup(w3, files)
        w5 == IF button = "cleanup" THEN cleanup_temp_directory(w4) ELSE w4
    IN IF files = {} THEN w1 ELSE w5

\* The script with the rerun that st.rerun() (line 520) starts.
Script(w0, s, files, button) ==
    LET w == ScriptBody(w0, s, files, button)
    IN IF button = "cleanup" THEN ScriptBody(w, s, files, "none") ELSE w

SessionInit ==
    /\ MatrixIdle
    /\ StatsIdle
    /\ TreeIdle
    /\ session_state = [s \in Sessions |-> NewSession]
    /\ environ = 0
    /\ disk = [d \in Dirs |-> EmptyDir]
    /\ last_run = Empty

\* A script run of session s: page load, widget change or button press.
\* A session's first run is the page load, with an empty uploader. The
\* buttons exist only inside `if uploaded_files:`, the Run button only
\* with two or more files.
ScriptRun(s, files, button) ==
    /\ ~session_state[s].session_id => files = {}
    /\ button # "none" => files # {}
    /\ button = "run" => Cardinality(files) >= MIN_COMPARE_GENOMES
    /\ LET w == Script([st |-> session_state[s], env |-> environ,
                        disk |-> disk, run |-> RunOf(s, files, button)],
                       s, files, button)
       IN /\ session_state' = [session_state EXCEPT ![s] = w.st]
          /\ environ' = w.env
          /\ disk' = w.disk
          /\ last_run' = w.run
    /\ UNCHANGED <<matrixVars, statsVars, treeVars>>

PageLoad == \E s \in Sessions : ScriptRun(s, {}, "none")

UploadChange ==
    \E s \in Sessions, files \in Uploads \ {{}} : ScriptRun(s, files, "none")

PressRun == \E s \in Sessions, files \in Uploads : ScriptRun(s, files, "run")

PressCleanup ==
    \E s \in Sessions, files \in Uploads : ScriptRun(s, files, "cleanup")

SessionNext == PageLoad \/ UploadChange \/ PressRun \/ PressCleanup

SessionSpec == SessionInit /\ [][SessionNext]_vars

\* ------------------------------------------- properties of the sessions
\* C19: library code running for a session uses that session's own temp
\* directory: the fastANI per-pair files of a run go there, and the "Clean
\* up temporary files" action of one session never removes another
\* session's temp directory.
C19_SessionIsolation ==
    last_run # Empty =>
        /\ last_run.fastani_dir \in {NoDir, last_run.session}
        /\ last_run.removed \in {NoDir, last_run.session}

\* C20: cached outputs rendered without the Run button being pressed were
\* computed from the currently uploaded set of files.
C20_CacheNotStale ==
    (last_run # Empty /\ last_run.shown_cached # NoOutputs) =>
        last_run.shown_cached = last_run.files

\* C21: if temp files were created in a session (temp_files_created is
\* True) and a later rerun of the script has no uploaded files, that rerun
\* removes the session's temp directory and resets temp_files_created and
\* files_processed to False.
C21_CleanupOnRefresh ==
    [][\A s \in Sessions :
        (/\ session_state[s].temp_files_created
         /\ last_run' # last_run
         /\ last_run'.session = s
         /\ last_run'.files = {}) =>
            /\ ~disk'[s].exists
            /\ ~session_state'[s].temp_files_created
            /\ ~session_state'[s].files_processed]_vars

====
